---- MODULE Spec2Model ----
(***************************************************************************)
(* rocket-validation: the Validated<T> guards (body-data, request, form),  *)
(* the request-local CachedValidationErrors cell and validation_catcher,   *)
(* as one request at a time passing through Rocket's guard evaluation.     *)
(***************************************************************************)
EXTENDS Integers, Sequences, FiniteSets, TLC

\* ------------------------------------------------------------------ bounds
MaxFields == 2      \* constrained fields of the validated struct
MaxGuards == 2      \* guard invocations evaluated for one request

\* --------------------------------------------------------- program constants
UnprocessableEntity == 422
CatcherCode == 422
CatcherMessage == "Unprocessable Entity. The request was well-formed but was unable to be followed due to semantic errors."
ParserKey == "Parser"
ParserCode == "Error"

\* ------------------------------------------------------------ value domains
FieldNames == <<"name", "age", "email", "phone">>
Fields == {FieldNames[i] : i \in 1..MaxFields}
\* a field value: 1 satisfies the field's constraints, 0 violates one, and 2
\* violates two; only the first field carries two constraints
FieldValues(f) == IF f = FieldNames[1] THEN {0, 1, 2} ELSE {0, 1}
Payloads == {d \in [Fields -> {0, 1, 2}] : \A f \in Fields : d[f] \in FieldValues(f)}

NoMessage == [some |-> FALSE, text |-> ""]
SomeMessage(t) == [some |-> TRUE, text |-> t]

\* ValidationErrors::new(): the empty field -> errors map
NewValidationErrors == [k \in {} |-> <<>>]

\* ValidationErrors::add(field, error) on a collection
AddError(errors, key, e) ==
    [k \in (DOMAIN errors) \cup {key} |->
        IF k = key
        THEN (IF key \in DOMAIN errors THEN Append(errors[key], e) ELSE <<e>>)
        ELSE errors[k]]

\* the constraint codes a field value violates (the struct's derive(Validate))
Violations(v) ==
    IF v = 0 THEN <<[code |-> "length", message |-> NoMessage]>>
    ELSE IF v = 2 THEN <<[code |-> "range", message |-> NoMessage],
                         [code |-> "custom", message |-> NoMessage]>>
    ELSE <<>>

ViolatedFields(data) == {f \in Fields : Violations(data[f]) # <<>>}

\* data.validate(): Ok(()) or Err(ValidationErrors), one key per violated field
validate(data) ==
    IF ViolatedFields(data) = {}
    THEN [tag |-> "Ok", errors |-> NewValidationErrors]
    ELSE [tag |-> "Err",
          errors |-> [f \in ViolatedFields(data) |-> Violations(data[f])]]

\* ---------------------------------------------- outcomes of the wrapped types
Success(v) == [tag |-> "Success", value |-> v]
Forward(f) == [tag |-> "Forward", fwd |-> f]
Error(s, d) == [tag |-> "Error", status |-> s, detail |-> d]

\* the Error type of the guards: Result<ValidationErrors, inner error>
DetailOk(errors) == [tag |-> "Ok", errors |-> errors]
DetailErr(err) == [tag |-> "Err", err |-> err]

\* rocket::serde::json::Error values and the status Json<D>::from_data attaches
JsonFailures ==
    { [tag |-> "Error", status |-> 400, err |-> "parse_syntax"],
      [tag |-> "Error", status |-> 413, err |-> "io_eof"],
      [tag |-> "Error", status |-> 422, err |-> "parse_data"] }

\* err.to_string() of a json::Error
to_string(err) ==
    CASE err = "parse_syntax" -> "expected value at line 1 column 1"
      [] err = "io_eof" -> "i/o error: data limit exceeded"
      [] err = "parse_data" -> "missing field name at line 1 column 2"
      [] OTHER -> "unknown"

ForwardValues == {404, 400}

JsonOutcomes ==
    JsonFailures \cup {Forward(f) : f \in ForwardValues}
                 \cup {Success(d) : d \in Payloads}

\* D::from_request of a caller-defined guard type
RequestFailures ==
    { [tag |-> "Error", status |-> 401, err |-> "denied"],
      [tag |-> "Error", status |-> 422, err |-> "unreadable"] }

RequestOutcomes ==
    RequestFailures \cup {Forward(f) : f \in ForwardValues}
                    \cup {Success(d) : d \in Payloads}

\* ---------------------------------------- the request-local cache cell
Unset == [state |-> "Unset", errors |-> NewValidationErrors]
CachedNone == [state |-> "None", errors |-> NewValidationErrors]
CachedSome(errors) == [state |-> "Some", errors |-> errors]


\* Request::local_cache(f): the cell keeps the first value it was given
\* (faulty variant: every call replaces the stored value)
local_cache_overwrite(cell, value) == value

local_cache(cell, value) == IF cell.state = "Unset" THEN value ELSE cell

\* -------------------------------------------------------------- the guards
\* the synthetic entry added under cfg(feature = "parser_errors")
\* (faulty variant: the message is the code, not the rendered error)
ParserErrors_code(err) ==
    AddError(NewValidationErrors, ParserKey,
             [code |-> ParserCode, message |-> SomeMessage(ParserCode)])

ParserErrors(err) ==
    AddError(NewValidationErrors, ParserKey,
             [code |-> ParserCode, message |-> SomeMessage(to_string(err))])

\* the collection built on a decode failure
DecodeFailureErrors(flag, err) ==
    IF flag THEN ParserErrors(err) ELSE NewValidationErrors

\* Outcome::Error((status, Err(err))) of the decode-failure arm
\* (faulty variant: the status is fixed to 422)
DecodeFailureOutcome_422(flag, status, err) ==
    Error(UnprocessableEntity, DetailErr(err))

\* (faulty variant: the detail follows the feature flag)
DecodeFailureOutcome_flag(flag, status, err) ==
    Error(status, IF flag THEN DetailOk(DecodeFailureErrors(flag, err))
                          ELSE DetailErr(err))

DecodeFailureOutcome(flag, status, err) == Error(status, DetailErr(err))

\* the Err(err) arm of data.validate(): cache the errors, fail with 422
\* (faulty variant: the errors are not cached)
ValidationFailure_nostore(cell, errors) ==
    [slot |-> cell,
     out |-> Error(UnprocessableEntity, DetailOk(errors))]

ValidationFailure(cell, errors) ==
    [slot |-> local_cache(cell, CachedSome(errors)),
     out |-> Error(UnprocessableEntity, DetailOk(errors))]

\* the Outcome::Success(data) arm shared by from_data and from_request
\* (faulty variant: the success arm initialises the cell)
Validation_store(cell, data) ==
    IF validate(data).tag = "Ok"
    THEN [slot |-> local_cache(cell, CachedSome(NewValidationErrors)),
          out |-> Success(data)]
    ELSE ValidationFailure(cell, validate(data).errors)

Validation(cell, data) ==
    IF validate(data).tag = "Ok"
    THEN [slot |-> cell, out |-> Success(data)]
    ELSE ValidationFailure(cell, validate(data).errors)

\* the Outcome::Forward arm
\* (faulty variant: the forward arm initialises the cell)
ForwardArm_store(cell, inner) ==
    [slot |-> local_cache(cell, CachedSome(NewValidationErrors)), out |-> inner]

ForwardArm(cell, inner) == [slot |-> cell, out |-> Forward(inner.fwd)]

\* <Validated<Json<D>> as FromData>::from_data
from_data(flag, cell, inner) ==
    CASE inner.tag = "Error" ->
            [slot |-> local_cache(cell, CachedSome(DecodeFailureErrors(flag, inner.err))),
             out |-> DecodeFailureOutcome(flag, inner.status, inner.err)]
      [] inner.tag = "Forward" -> ForwardArm(cell, inner)
      [] OTHER -> Validation(cell, inner.value)

\* the Outcome::Error arm of from_request
\* (faulty variant: the error arm initialises the cell)
RequestFailure_store(cell, inner) ==
    [slot |-> local_cache(cell, CachedSome(NewValidationErrors)),
     out |-> Error(inner.status, DetailErr(inner.err))]

RequestFailure(cell, inner) ==
    [slot |-> cell, out |-> Error(inner.status, DetailErr(inner.err))]

\* <Validated<D> as FromRequest>::from_request
from_request(cell, inner) ==
    CASE inner.tag = "Error" -> RequestFailure(cell, inner)
      [] inner.tag = "Forward" -> ForwardArm(cell, inner)
      [] OTHER -> Validation(cell, inner.value)

\* ------------------------------------------------------------ the form path
NoValue == [some |-> FALSE, text |-> ""]
SomeName(n) == [some |-> TRUE, text |-> n]

\* the form::Error built for one (field, errors) pair of the collection
\* (faulty variant: the form error carries no name)
FormError_unnamed(e) ==
    [name |-> NoValue,
     kind |-> [tag |-> "Validation", payload |-> e[1]],
     value |-> NoValue,
     entity |-> "Value"]

FormError(e) ==
    [name |-> SomeName(e[1]),
     kind |-> [tag |-> "Validation", payload |-> e[1]],
     value |-> NoValue,
     entity |-> "Value"]

\* the orders a HashMap over the keys S may be iterated in
Orders(S) ==
    {o \in [1..Cardinality(S) -> S] : \A i, j \in DOMAIN o : i # j => o[i] # o[j]}

\* err.into_errors().into_iter(): the (field, errors) pairs in iteration order
into_iter(errors, order) ==
    [i \in 1..Len(order) |-> <<order[i], errors[order[i]]>>]

\* the failures T::finalize itself may report
InnerFormErrors ==
    { <<[name |-> SomeName(FieldNames[1]),
         kind |-> [tag |-> "Missing", payload |-> ""],
         value |-> NoValue,
         entity |-> "Field"]>> }

FormOutcomes ==
    {[tag |-> "Err", errors |-> e] : e \in InnerFormErrors}
        \cup {[tag |-> "Ok", value |-> d] : d \in Payloads}

\* <Validated<T> as FromForm>::finalize
finalize(inner, order) ==
    IF inner.tag = "Err" THEN [tag |-> "Err", errors |-> inner.errors]
    ELSE IF validate(inner.value).tag = "Ok"
    THEN [tag |-> "Ok", value |-> inner.value]
    ELSE [tag |-> "Err",
          errors |-> [i \in 1..Len(order) |->
                        FormError(into_iter(validate(inner.value).errors, order)[i])]]

\* -------------------------------------------------------------- the catcher
CatchStatus == 422

\* Option::as_ref of the cached CachedValidationErrors(..).0
as_ref(cell) ==
    IF cell.state = "Some"
    THEN [some |-> TRUE, errors |-> cell.errors]
    ELSE [some |-> FALSE, errors |-> NewValidationErrors]

NoErrors == [some |-> FALSE, errors |-> NewValidationErrors]

\* (faulty variant: the body never carries the cached errors)
validation_catcher_null(cell) ==
    [slot |-> local_cache(cell, CachedNone),
     body |-> [code |-> CatcherCode, message |-> CatcherMessage, errors |-> NoErrors]]

validation_catcher(cell) ==
    [slot |-> local_cache(cell, CachedNone),
     body |-> [code |-> CatcherCode,
               message |-> CatcherMessage,
               errors |-> as_ref(local_cache(cell, CachedNone))]]

\* ------------------------------------------------------------------- state
VARIABLES
    parser_errors,  \* cfg(feature = "parser_errors") of the build
    nguards,        \* guards evaluated for this request so far
    slot,           \* the request's CachedValidationErrors cell
    writes,         \* values stored into the cell during this request
    pc,             \* "routing", "handler", "failed", "handled" or "caught"
    status,         \* the status the request ended with (0: not ended)
    last,           \* the latest guard call: input, outcome, cell before and after
    response        \* the body rendered by the catcher

vars == <<parser_errors, nguards, slot, writes, pc, status, last, response>>

NoCall == [op |-> "none"]
NoResponse == [code |-> 0, message |-> "", errors |-> NoErrors]

Stored(before, after) == IF after # before THEN 1 ELSE 0

Init ==
    /\ parser_errors \in BOOLEAN
    /\ nguards = 0
    /\ slot = Unset
    /\ writes = 0
    /\ pc = "routing"
    /\ status = 0
    /\ last = NoCall
    /\ response = NoResponse

\* Rocket's handling of a guard outcome: an Error ends the request with its
\* status unless the guard is taken as Option<..> / Result<..>, which absorbs
\* it; otherwise evaluation goes on at `next`
GuardStep(op, inner, r, failStatus, absorbed, next) ==
    /\ slot' = r.slot
    /\ writes' = writes + Stored(slot, r.slot)
    /\ nguards' = nguards + 1
    /\ last' = [op |-> op, inner |-> inner, out |-> r.out,
                before |-> slot, after |-> r.slot,
                absorbed |-> (absorbed /\ failStatus # 0)]
    /\ IF failStatus # 0 /\ ~absorbed
       THEN pc' = "failed" /\ status' = failStatus
       ELSE pc' = next /\ status' = status
    /\ UNCHANGED <<parser_errors, response>>

FailStatus(out) == IF out.tag = "Error" THEN out.status ELSE 0

\* the data guard is the last guard of its route: unless it forwards to the
\* next route, the handler runs after it
FromData(inner, absorbed) ==
    /\ pc = "routing"
    /\ nguards < MaxGuards
    /\ LET r == from_data(parser_errors, slot, inner)
       IN GuardStep("from_data", inner, r, FailStatus(r.out), absorbed,
                    IF r.out.tag = "Forward" THEN "routing" ELSE "handler")

FromRequest(inner, absorbed) ==
    /\ pc = "routing"
    /\ nguards < MaxGuards
    /\ LET r == from_request(slot, inner)
       IN GuardStep("from_request", inner, r, FailStatus(r.out), absorbed, "routing")

\* the status Rocket gives a form whose errors are of kind Validation / Missing
FormFailureStatus == 422

Finalize(inner, order, absorbed) ==
    /\ pc = "routing"
    /\ nguards < MaxGuards
    /\ LET out == finalize(inner, order)
       IN GuardStep("finalize", inner, [slot |-> slot, out |-> out],
                    IF out.tag = "Err" THEN FormFailureStatus ELSE 0, absorbed, "routing")

\* routing ends without a guard failing: the handler answered, or every
\* route forwarded, or the handler itself answered 422
EndStatuses == {200, 404, 422}

RouteEnds(s) ==
    /\ pc \in {"routing", "handler"}
    /\ pc' = IF s = 200 THEN "handled" ELSE "failed"
    /\ status' = s
    /\ UNCHANGED <<parser_errors, nguards, slot, writes, last, response>>

\* #[catch(422)]: Rocket invokes the catcher for a request that ended in 422
Catch ==
    /\ pc = "failed"
    /\ status = CatchStatus
    /\ LET r == validation_catcher(slot)
       IN /\ slot' = r.slot
          /\ writes' = writes + Stored(slot, r.slot)
          /\ response' = r.body
    /\ pc' = "caught"
    /\ UNCHANGED <<parser_errors, nguards, status, last>>

\* the request is dropped with its local cache; the next one starts empty
NewRequest ==
    /\ pc \in {"failed", "handled", "caught"}
    /\ nguards' = 0
    /\ slot' = Unset
    /\ writes' = 0
    /\ pc' = "routing"
    /\ status' = 0
    /\ last' = NoCall
    /\ response' = NoResponse
    /\ UNCHANGED parser_errors

\* whether the guard is taken as Option<..> / Result<..> matters only to an
\* input the guard fails on
Absorbing(inner) ==
    IF inner.tag \in {"Error", "Err"} \/ (inner.tag \in {"Success", "Ok"}
                                           /\ ViolatedFields(inner.value) # {})
    THEN BOOLEAN ELSE {FALSE}

FormOrders(inner) ==
    IF inner.tag = "Ok" THEN Orders(ViolatedFields(inner.value)) ELSE {<<>>}

Next ==
    \/ \E inner \in JsonOutcomes : \E absorbed \in Absorbing(inner) :
          FromData(inner, absorbed)
    \/ \E inner \in RequestOutcomes : \E absorbed \in Absorbing(inner) :
          FromRequest(inner, absorbed)
    \/ \E inner \in FormOutcomes : \E absorbed \in Absorbing(inner) :
          \E order \in FormOrders(inner) : Finalize(inner, order, absorbed)
    \/ \E s \in EndStatuses : RouteEnds(s)
    \/ Catch
    \/ NewRequest

Spec == Init /\ [][Next]_vars

\* ===================================================================== claims
\* what the latest guard call was about
ValidationFailed ==
    /\ last.op \in {"from_data", "from_request"}
    /\ last.inner.tag = "Success"
    /\ ViolatedFields(last.inner.value) # {}

DecodeFailed == last.op = "from_data" /\ last.inner.tag = "Error"

RequestGuardFailed == last.op = "from_request" /\ last.inner.tag = "Error"

\* the collection the validation of the latest call produced
Produced == validate(last.inner.value).errors

\* the collection {"Parser": [<rendered decode error>]}
ParserCollection(err) ==
    [k \in {"Parser"} |->
        <<[code |-> "Error", message |-> [some |-> TRUE, text |-> to_string(err)]]>>]

Fails422WithErrors ==
    last.out = [tag |-> "Error", status |-> 422,
                detail |-> [tag |-> "Ok", errors |-> Produced]]

\* C1 (as stated): a payload that decodes but violates a constraint makes the
\* body-data and request guards fail with 422 carrying the validation errors,
\* and afterwards the cell holds a non-empty collection with an entry for
\* every violated field.
C1_AsStated ==
    ValidationFailed =>
        /\ Fails422WithErrors
        /\ last.after.state = "Some"
        /\ DOMAIN last.after.errors # {}
        /\ \A f \in ViolatedFields(last.inner.value) : f \in DOMAIN last.after.errors

\* C1 (amended): the guards fail with 422 carrying the validation errors; the
\* cell afterwards holds exactly that collection (one entry per violated
\* field) when it was not initialised before the call, and keeps its earlier
\* content otherwise.
C1_ValidationFailure ==
    ValidationFailed =>
        /\ Fails422WithErrors
        /\ last.before.state = "Unset" =>
              /\ last.after = [state |-> "Some", errors |-> Produced]
              /\ DOMAIN last.after.errors = ViolatedFields(last.inner.value)
        /\ last.before.state # "Unset" => last.after = last.before

C1_Witness ==
    /\ ValidationFailed
    /\ last.op = "from_request"
    /\ last.before.state = "Unset"
    /\ Cardinality(ViolatedFields(last.inner.value)) = 2
    /\ last.after.state = "Some"

\* C2: a payload that decodes and satisfies every constraint comes back from
\* each guard (from_data, from_request, finalize) as Success / Ok with the
\* decoded value unchanged, and the cell is exactly as it was before the call.
C2_ValidPassesThrough ==
    /\ (last.op \in {"from_data", "from_request"}
          /\ last.inner.tag = "Success"
          /\ ViolatedFields(last.inner.value) = {})
       => /\ last.out = [tag |-> "Success", value |-> last.inner.value]
          /\ last.after = last.before
    /\ (last.op = "finalize"
          /\ last.inner.tag = "Ok"
          /\ ViolatedFields(last.inner.value) = {})
       => /\ last.out = [tag |-> "Ok", value |-> last.inner.value]
          /\ last.after = last.before

C2_Witness ==
    /\ last.op = "from_data"
    /\ last.inner.tag = "Success"
    /\ ViolatedFields(last.inner.value) = {}
    /\ last.out.tag = "Success"
    /\ slot.state = "Unset"

\* a step within one request: every step but the start of the next request
SameRequest == ~(pc \in {"failed", "handled", "caught"} /\ pc' = "routing")

\* C3: the cell is write-once within a request: once it is initialised (with a
\* collection or with none) no later guard call or catcher read changes it,
\* and at most one value is stored per request.
C3_WriteOnce ==
    /\ [](writes <= 1)
    /\ [][(SameRequest /\ slot.state # "Unset") => slot' = slot]_vars

C3_Witness ==
    /\ ValidationFailed
    /\ last.before.state = "Some"
    /\ last.before.errors # Produced
    /\ last.after = last.before
    /\ slot = last.before

StoredParserEntry ==
    IF parser_errors
    THEN /\ DOMAIN last.after.errors = {"Parser"}
         /\ Len(last.after.errors["Parser"]) = 1
         /\ last.after.errors["Parser"][1].message =
                [some |-> TRUE, text |-> to_string(last.inner.err)]
    ELSE DOMAIN last.after.errors = {}

\* C4 (as stated): whenever the JSON decoder fails, the body-data guard stores
\* a collection in the cell: exactly one entry keyed "Parser" with the decode
\* error's text when parser_errors is on, an empty collection when it is off.
C4_AsStated ==
    DecodeFailed => (last.after.state = "Some" /\ StoredParserEntry)

\* C4 (amended): that collection is what the cell holds after the call when the
\* cell was not initialised before it; an initialised cell keeps its content.
C4_DecodeFailureStored ==
    DecodeFailed =>
        /\ last.before.state = "Unset" => (last.after.state = "Some" /\ StoredParserEntry)
        /\ last.before.state # "Unset" => last.after = last.before

C4_Witness ==
    /\ DecodeFailed
    /\ parser_errors
    /\ last.before.state = "Unset"
    /\ slot.state = "Some"
    /\ "Parser" \in DOMAIN slot.errors

\* C5 (as stated): on a decode failure the body-data guard fails with the
\* decoder's status, and its detail is the validation-error collection when
\* parser_errors is on and the original decode error when it is off.
C5_AsStated ==
    DecodeFailed =>
        /\ last.out.tag = "Error"
        /\ last.out.status = last.inner.status
        /\ last.out.detail =
              IF parser_errors
              THEN [tag |-> "Ok", errors |-> ParserCollection(last.inner.err)]
              ELSE [tag |-> "Err", err |-> last.inner.err]

\* C5 (amended): on a decode failure the body-data guard fails with the
\* decoder's status and the original decode error as detail, whether
\* parser_errors is on or off.
C5_DecodeFailureOutcome ==
    DecodeFailed =>
        last.out = [tag |-> "Error", status |-> last.inner.status,
                    detail |-> [tag |-> "Err", err |-> last.inner.err]]

C5_Witness ==
    /\ DecodeFailed
    /\ parser_errors
    /\ last.out.detail.tag = "Err"

\* the request ended on the latest guard call's failure
EndedOnLast == pc \in {"failed", "caught"} /\ ~last.absorbed

\* C6 (as stated): with parser_errors on, a body the decoder rejects yields the
\* collection {"Parser": [<message>]} and the request ends with status 422,
\* whatever status the decoder attached.
C6_AsStated ==
    (parser_errors /\ DecodeFailed /\ EndedOnLast) =>
        /\ last.after = [state |-> "Some", errors |-> ParserCollection(last.inner.err)]
        /\ status = 422

\* C6 (amended): with parser_errors on, the request ends with the status the
\* decoder attached (422 only when the decoder attached 422), and the cell
\* holds {"Parser": [<message>]} when it was not initialised before the call.
C6_MalformedBody ==
    (parser_errors /\ DecodeFailed /\ EndedOnLast) =>
        /\ status = last.inner.status
        /\ last.before.state = "Unset" =>
              last.after = [state |-> "Some", errors |-> ParserCollection(last.inner.err)]
        /\ pc = "caught" => last.inner.status = 422

C6_Witness ==
    /\ parser_errors
    /\ DecodeFailed
    /\ EndedOnLast
    /\ last.inner.err = "parse_syntax"
    /\ status = 400
    /\ slot = [state |-> "Some", errors |-> ParserCollection("parse_syntax")]

FormNames == {last.out.errors[i].name.text : i \in DOMAIN last.out.errors}

\* C7: finalize never writes the cell; a value that finalizes but fails
\* validation gives a form-error list with exactly one entry per violated
\* field, each with name = the field, kind = Validation(field) and no value;
\* a failure of the wrapped finalize is returned unchanged.
C7_FormPath ==
    last.op = "finalize" =>
        /\ last.after = last.before
        /\ last.inner.tag = "Err" => last.out = last.inner
        /\ (last.inner.tag = "Ok" /\ ViolatedFields(last.inner.value) # {}) =>
              /\ last.out.tag = "Err"
              /\ Len(last.out.errors) = Cardinality(ViolatedFields(last.inner.value))
              /\ FormNames = ViolatedFields(last.inner.value)
              /\ \A i \in DOMAIN last.out.errors :
                    /\ last.out.errors[i].name.some
                    /\ last.out.errors[i].kind =
                          [tag |-> "Validation", payload |-> last.out.errors[i].name.text]
                    /\ ~last.out.errors[i].value.some

C7_Witness ==
    /\ last.op = "finalize"
    /\ last.inner.tag = "Ok"
    /\ Cardinality(ViolatedFields(last.inner.value)) = 2
    /\ \E f \in Fields : last.inner.value[f] = 2
    /\ last.out.tag = "Err"
    /\ Len(last.out.errors) = 2

\* the body the catcher rendered shows the cell's content, null if no guard wrote it
RendersCell ==
    /\ response.code = 422
    /\ response.message = CatcherMessage
    /\ response.errors =
          IF slot.state = "Some"
          THEN [some |-> TRUE, errors |-> slot.errors]
          ELSE [some |-> FALSE, errors |-> NewValidationErrors]
    /\ slot.state = "None" <=> (last.op = "none" \/ last.after.state = "Unset")

\* C8 (as stated): the catcher's body has code 422, the fixed message and the
\* cell's content (null if never written); so after a validation failure in
\* the body-data or request-guard path the rendered errors are exactly the
\* collection that validation produced.
C8_AsStated ==
    pc = "caught" =>
        /\ RendersCell
        /\ (ValidationFailed /\ ~last.absorbed) =>
              response.errors = [some |-> TRUE, errors |-> Produced]

\* C8 (amended): the catcher's body has code 422, the fixed message and the
\* cell's content (null if never written); after a validation failure the
\* rendered errors are the collection that validation produced when the cell
\* was not initialised before that guard call, and the earlier content of the
\* cell otherwise.
C8_CatcherRendersCell ==
    pc = "caught" =>
        /\ RendersCell
        /\ (ValidationFailed /\ ~last.absorbed) =>
              response.errors =
                 IF last.before.state = "Unset"
                 THEN [some |-> TRUE, errors |-> Produced]
                 ELSE [some |-> TRUE, errors |-> last.before.errors]

C8_Witness ==
    /\ pc = "caught"
    /\ ValidationFailed
    /\ ~last.absorbed
    /\ last.before.state = "Unset"
    /\ response.errors.some
    /\ DOMAIN response.errors.errors = Fields

\* C9: a Forward of the wrapped decoder or request guard is returned as the
\* same Forward, and the cell is not written.
C9_ForwardPassesThrough ==
    (last.op \in {"from_data", "from_request"} /\ last.inner.tag = "Forward") =>
        /\ last.out = last.inner
        /\ last.after = last.before

C9_Witness ==
    /\ last.op = "from_data"
    /\ last.inner.tag = "Forward"
    /\ last.out.tag = "Forward"
    /\ slot.state = "Unset"

RequestFailurePassedThrough ==
    /\ last.out = [tag |-> "Error", status |-> last.inner.status,
                   detail |-> [tag |-> "Err", err |-> last.inner.err]]
    /\ last.after = last.before

\* C10 (as stated): a failure of the wrapped from_request comes back with the
\* same status and inner error, nothing is synthesised or written to the
\* cell, so a later catcher read for the request renders errors as null.
C10_AsStated ==
    RequestGuardFailed =>
        /\ RequestFailurePassedThrough
        /\ (pc = "caught" /\ ~last.absorbed) => ~response.errors.some

\* C10 (amended): a failure of the wrapped from_request comes back with the
\* same status and inner error and the cell is not written; a later catcher
\* read renders errors as null when no earlier guard of the request had
\* written the cell, and that earlier content otherwise.
C10_RequestFailure ==
    RequestGuardFailed =>
        /\ RequestFailurePassedThrough
        /\ (pc = "caught" /\ ~last.absorbed) =>
              response.errors =
                 IF last.before.state = "Unset"
                 THEN [some |-> FALSE, errors |-> NewValidationErrors]
                 ELSE [some |-> TRUE, errors |-> last.before.errors]

C10_Witness ==
    /\ RequestGuardFailed
    /\ pc = "caught"
    /\ ~last.absorbed
    /\ last.before.state = "Unset"
    /\ ~response.errors.some
    /\ slot.state = "None"

====
